---- MODULE Spec2Model ----
(***************************************************************************)
(* Model of the SoundCloud dump aggregator (src/parser.py):                *)
(* SoundCloudParser.run, parse_dump_files, _extract_track_data and the     *)
(* three report generators.                                                *)
(*                                                                         *)
(* JSON values are tagged records:                                         *)
(*   [t |-> "null"], [t |-> "num", v |-> n], [t |-> "str", v |-> toks],    *)
(*   [t |-> "arr", v |-> <<...>>], [t |-> "obj", v |-> [key |-> value]].   *)
(* A string is the sequence of its lexical tokens, so the empty string is  *)
(* <<>> and str.replace / datetime.fromisoformat work on the text.         *)
(***************************************************************************)
EXTENDS Integers, Sequences, FiniteSets, TLC

VARIABLES dump, idx, pc, agg, seen, failed, out

vars == <<dump, idx, pc, agg, seen, failed, out>>

(* ------------------------------ bounds --------------------------------- *)
MaxFiles == 3

(* --------------------------- JSON values ------------------------------- *)
JNull == [t |-> "null"]
JNum(n) == [t |-> "num", v |-> n]
JStr(toks) == [t |-> "str", v |-> toks]
JArr(s) == [t |-> "arr", v |-> s]
JObj(f) == [t |-> "obj", v |-> f]
S(tok) == JStr(<<tok>>)
EmptyStr == JStr(<<>>)
EmptyObj == JObj(<<>>)

\* Python truthiness of a JSON value (bool(x)).
Truthy(x) ==
    CASE x.t = "null" -> FALSE
      [] x.t = "num" -> x.v # 0
      [] x.t = "str" -> Len(x.v) > 0
      [] x.t = "arr" -> Len(x.v) > 0
      [] x.t = "obj" -> DOMAIN x.v # {}

\* "k in d" for a dict d.
Has(d, k) == k \in DOMAIN d.v

\* d.get(k, default) for a dict d.
Get(d, k, default) == IF Has(d, k) THEN d.v[k] ELSE default

\* Python's "a or b".
PyOr(a, b) == IF Truthy(a) THEN a ELSE b

\* dict[k] = v.
Put(f, k, val) == (k :> val) @@ f

(* ---------------------------- timestamps ------------------------------- *)
\* str.replace("Z", "+00:00").
ReplaceZ(toks) == [i \in DOMAIN toks |-> IF toks[i] = "Z" THEN "+00:00" ELSE toks[i]]

DateTokens == {"2023-01-01", "2024-03-01"}
TimeTokens == {"10:00:00", "12:00:00"}
OffsetTokens == {"+00:00", "+02:00"}

DateDays(tok) == IF tok = "2023-01-01" THEN 19358 ELSE 19783
TimeMinutes(tok) == IF tok = "10:00:00" THEN 600 ELSE 720
OffsetMinutes(tok) == IF tok = "+00:00" THEN 0 ELSE 120

\* datetime.fromisoformat: [ok, aware, minutes]; ok = FALSE is ValueError.
\* minutes is the UTC instant of an aware value, the wall clock of a naive one.
FromIsoFormat(toks) ==
    IF Len(toks) = 1 /\ toks[1] \in DateTokens
    THEN [ok |-> TRUE, aware |-> FALSE, minutes |-> DateDays(toks[1]) * 1440]
    ELSE IF Len(toks) \in {3, 4} /\ toks[1] \in DateTokens /\ toks[2] = "T"
            /\ toks[3] \in TimeTokens
            /\ (Len(toks) = 4 => toks[4] \in OffsetTokens)
    THEN [ok |-> TRUE, aware |-> Len(toks) = 4,
          minutes |-> DateDays(toks[1]) * 1440 + TimeMinutes(toks[3])
                      - (IF Len(toks) = 4 THEN OffsetMinutes(toks[4]) ELSE 0)]
    ELSE [ok |-> FALSE, aware |-> FALSE, minutes |-> 0]

\* The try block of lines 100-104: TRUE iff "new < current" is evaluated and
\* is true.  A non-string value (AttributeError on .replace), an unparsable
\* text (ValueError) and a naive/aware comparison (TypeError) are swallowed.
NewIsEarlier(new, current) ==
    /\ current.t = "str"
    /\ new.t = "str"
    /\ LET c == FromIsoFormat(ReplaceZ(current.v))
           n == FromIsoFormat(ReplaceZ(new.v))
       IN  /\ c.ok
           /\ n.ok
           /\ c.aware = n.aware
           /\ n.minutes < c.minutes

(* ----------------------- aggregation state ----------------------------- *)
\* SoundCloudParser.__init__; log is a history of the merges performed.
EmptyAgg ==
    [tracks |-> <<>>, play_counts |-> <<>>, first_seen |-> <<>>,
     last_seen |-> <<>>, listening_history |-> <<>>, log |-> <<>>]

TrackIds(a) == {a.tracks[i].track_id : i \in DOMAIN a.tracks}

Ok(a) == [st |-> a, exc |-> FALSE]
Raise(a) == [st |-> a, exc |-> TRUE]

(* ------------------- candidate record merge ---------------------------- *)
\* Mutation: the counts of the observations are added up.
MaxCount_Sum(current, play_count) == current + play_count

\* max(self.play_counts[track_id], play_count)
MaxCount(current, play_count) == IF play_count > current THEN play_count ELSE current

\* Mutation: only a missing (null) id is discarded ("if track_id is None").
IdDiscarded_NullOnly(track_id) == track_id.t = "null"

\* Lines 55-57: "if not track_id: return".
IdDiscarded(track_id) == ~Truthy(track_id)

\* Mutation: every observation rewrites the record (last one wins).
StoreTrack_Overwrite(tracks, track_id, title, artist, url) ==
    IF \E i \in DOMAIN tracks : tracks[i].track_id = track_id
    THEN [i \in DOMAIN tracks |->
            IF tracks[i].track_id = track_id
            THEN [track_id |-> track_id, title |-> title, artist |-> artist, url |-> url]
            ELSE tracks[i]]
    ELSE Append(tracks, [track_id |-> track_id, title |-> title,
                         artist |-> artist, url |-> url])

\* Lines 79-85: the TrackRecord is created only for a new track_id.
StoreTrack(tracks, track_id, title, artist, url) ==
    IF \E i \in DOMAIN tracks : tracks[i].track_id = track_id
    THEN tracks
    ELSE Append(tracks, [track_id |-> track_id, title |-> title,
                         artist |-> artist, url |-> url])

\* Mutation: the count is stored without the "play_count > 0" test.
UpdatePlayCount_NoGuard(play_counts, track_id, n) ==
    Put(play_counts, track_id,
        MaxCount(IF track_id \in DOMAIN play_counts
                 THEN play_counts[track_id] ELSE 0, n))

\* Lines 88-92.
UpdatePlayCount(play_counts, track_id, n) ==
    IF n > 0
    THEN Put(play_counts, track_id,
             MaxCount(IF track_id \in DOMAIN play_counts
                      THEN play_counts[track_id] ELSE 0, n))
    ELSE play_counts

\* Mutation: the first-seen value follows the last event, like last_seen.
UpdateFirstSeen_Overwrite(first_seen, track_id, played_at) ==
    Put(first_seen, track_id, played_at)

\* Lines 96-106.
UpdateFirstSeen(first_seen, track_id, played_at) ==
    IF track_id \notin DOMAIN first_seen
    THEN Put(first_seen, track_id, played_at)
    ELSE IF NewIsEarlier(played_at, first_seen[track_id])
         THEN Put(first_seen, track_id, played_at)
         ELSE first_seen

\* Mutation: last_seen is kept chronological, like first_seen.
UpdateLastSeen_IfLater(last_seen, track_id, played_at) ==
    IF track_id \notin DOMAIN last_seen \/ NewIsEarlier(last_seen[track_id], played_at)
    THEN Put(last_seen, track_id, played_at)
    ELSE last_seen

\* Line 108.
UpdateLastSeen(last_seen, track_id, played_at) == Put(last_seen, track_id, played_at)

\* Mutation: a play already in the history is not added again.
AppendEvent_Dedup(listening_history, event) ==
    IF \E i \in DOMAIN listening_history :
           /\ listening_history[i].track_id = event.track_id
           /\ listening_history[i].played_at = event.played_at
    THEN listening_history
    ELSE Append(listening_history, event)

\* Lines 111-117.
AppendEvent(listening_history, event) == Append(listening_history, event)

\* Lines 119-120.
SeedFirstSeen(first_seen, track_id, created_at) ==
    IF Truthy(created_at) /\ track_id \notin DOMAIN first_seen
    THEN Put(first_seen, track_id, created_at)
    ELSE first_seen

Logged(a, data, source_url, done) ==
    [a EXCEPT !.log = Append(@, [rec |-> data, url |-> source_url, done |-> done])]

\* Lines 55-120, for an object that passed the test of line 54.
MergeRecord(a, data, source_url) ==
    LET track_id == data.v["id"]
        track_info == Get(data, "track", data)
    IN
    IF IdDiscarded(track_id) THEN Ok(a)
    ELSE IF track_info.t # "obj" THEN Raise(a)          \* .get on a non-dict
    ELSE
    LET title == Get(track_info, "title", Get(data, "title", S("Unknown")))
        user == Get(track_info, "user", EmptyObj)
    IN
    IF user.t # "obj" THEN Raise(a)                      \* .get on a non-dict
    ELSE
    LET artist == Get(user, "username", Get(user, "full_name", S("Unknown Artist")))
        play_count == PyOr(PyOr(PyOr(Get(data, "play_count", JNum(0)),
                                     Get(data, "count", JNum(0))),
                                Get(track_info, "playback_count", JNum(0))),
                           JNum(0))
        created_at == PyOr(Get(data, "created_at", JNull),
                           Get(track_info, "created_at", JNull))
        played_at == PyOr(Get(data, "played_at", JNull),
                          Get(data, "timestamp", JNull))
        url == PyOr(Get(track_info, "permalink_url", JNull),
                    Get(data, "permalink_url", EmptyStr))
    IN
    IF track_id.t \in {"arr", "obj"} THEN Raise(a)       \* unhashable dict key
    ELSE
    LET a1 == [a EXCEPT !.tracks = StoreTrack(@, track_id, title, artist, url)]
    IN
    IF play_count.t # "num" THEN Raise(Logged(a1, data, source_url, FALSE))
    ELSE
    LET a2 == [a1 EXCEPT !.play_counts = UpdatePlayCount(@, track_id, play_count.v)]
        a3 == IF Truthy(played_at)
              THEN [a2 EXCEPT
                      !.first_seen = UpdateFirstSeen(@, track_id, played_at),
                      !.last_seen = UpdateLastSeen(@, track_id, played_at),
                      !.listening_history =
                          AppendEvent(@, [track_id |-> track_id, title |-> title,
                                          artist |-> artist, played_at |-> played_at,
                                          source_url |-> source_url])]
              ELSE a2
        a4 == [a3 EXCEPT !.first_seen = SeedFirstSeen(@, track_id, created_at)]
    IN Ok(Logged(a4, data, source_url, TRUE))

(* ----------------------- recursive traversal --------------------------- *)
RECURSIVE SetToSeq(_)
SetToSeq(s) ==
    IF s = {} THEN <<>>
    ELSE LET x == CHOOSE y \in s : TRUE IN <<x>> \o SetToSeq(s \ {x})

\* What "for item in x" yields: the elements of a list, the characters of a
\* string, the keys of a dict.
IterItems(x) ==
    CASE x.t = "arr" -> x.v
      [] x.t = "str" -> [i \in DOMAIN x.v |-> S(x.v[i])]
      [] x.t = "obj" -> LET ks == SetToSeq(DOMAIN x.v)
                        IN [i \in DOMAIN ks |-> S(ks[i])]
      [] OTHER -> <<>>

\* iter(x) raises TypeError for a number and for None.
Iterable(x) == x.t \in {"arr", "str", "obj"}

RecordLike(data) == Has(data, "id") /\ (Has(data, "title") \/ Has(data, "track"))

RECURSIVE ExtractTrackData(_, _, _)
RECURSIVE ExtractEach(_, _, _)

\* A for loop over items; an exception leaves the loop with the state so far.
ExtractEach(r, items, source_url) ==
    IF r.exc \/ items = <<>> THEN r
    ELSE ExtractEach(ExtractTrackData(r.st, Head(items), source_url),
                     Tail(items), source_url)

\* Lines 41-51, for one of the keys collection, tracks, items.
ExtractUnder(r, data, key, source_url) ==
    IF r.exc \/ ~Has(data, key) THEN r
    ELSE IF ~Iterable(data.v[key]) THEN Raise(r.st)
    ELSE ExtractEach(r, IterItems(data.v[key]), source_url)

\* _extract_track_data
ExtractTrackData(a, data, source_url) ==
    IF data.t = "obj"
    THEN LET r == ExtractUnder(ExtractUnder(ExtractUnder(Ok(a), data, "collection",
                                   source_url), data, "tracks", source_url),
                               data, "items", source_url)
         IN  IF r.exc THEN r
             ELSE IF RecordLike(data) THEN MergeRecord(r.st, data, source_url)
             ELSE r
    ELSE IF data.t = "arr"
    THEN ExtractEach(Ok(a), data.v, source_url)
    ELSE Ok(a)

(* ------------------------------ reports -------------------------------- *)
\* list.sort(key=..., reverse=True) and sorted(..., reverse=True): a stable
\* descending sort.  Row i lands behind every row with a greater key and
\* behind the earlier rows with an equal key.
SortDesc(rows, Less(_, _)) ==
    LET pos(i) == 1 + Cardinality({j \in DOMAIN rows :
                        \/ Less(rows[i], rows[j])
                        \/ (j < i /\ ~Less(rows[j], rows[i]))})
    IN [p \in DOMAIN rows |-> rows[CHOOSE i \in DOMAIN rows : pos(i) = p]]

\* Mutation: an ascending sort read backwards, which reverses the ties.
SortByPlayCount_Reversed(tracks_list) ==
    LET pos(i) == 1 + Cardinality({j \in DOMAIN tracks_list :
                        \/ tracks_list[i].play_count < tracks_list[j].play_count
                        \/ (j > i /\ tracks_list[j].play_count = tracks_list[i].play_count)})
    IN [p \in DOMAIN tracks_list |->
          tracks_list[CHOOSE i \in DOMAIN tracks_list : pos(i) = p]]

\* Line 178.
LessPlayCount(x, y) == x.play_count < y.play_count
SortByPlayCount(tracks_list) == SortDesc(tracks_list, LessPlayCount)

\* Lines 165-175.
TrackRow(a, track_info) ==
    LET track_id == track_info.track_id
    IN [track_id |-> track_id, title |-> track_info.title,
        artist |-> track_info.artist,
        play_count |-> IF track_id \in DOMAIN a.play_counts
                       THEN a.play_counts[track_id] ELSE 0,
        first_seen |-> IF track_id \in DOMAIN a.first_seen
                       THEN a.first_seen[track_id] ELSE EmptyStr,
        last_seen |-> IF track_id \in DOMAIN a.last_seen
                      THEN a.last_seen[track_id] ELSE EmptyStr,
        url |-> track_info.url]

\* Lines 164-178: the rows of top_tracks.csv.
TopTracksRows(a) ==
    SortByPlayCount([i \in DOMAIN a.tracks |-> TrackRow(a, a.tracks[i])])

\* Lexicographic rank of the tokens (ASCII order of their first characters
\* and, within dates, times and offsets, of the digits that differ).
TokRank(tok) ==
    CASE tok = "+00:00" -> 1
      [] tok = "+02:00" -> 2
      [] tok = "10:00:00" -> 3
      [] tok = "12:00:00" -> 4
      [] tok = "2023-01-01" -> 5
      [] tok = "2024-03-01" -> 6
      [] tok = "T" -> 7
      [] tok = "Z" -> 8
      [] OTHER -> 9

\* str.__lt__ on texts none of whose tokens is a prefix of another.
RECURSIVE StrLess(_, _)
StrLess(x, y) ==
    IF y = <<>> THEN FALSE
    ELSE IF x = <<>> THEN TRUE
    ELSE IF TokRank(Head(x)) # TokRank(Head(y)) THEN TokRank(Head(x)) < TokRank(Head(y))
    ELSE StrLess(Tail(x), Tail(y))

\* "<" is defined between two numbers and between two strings only.
Comparable(x, y) == x.t = y.t /\ x.t \in {"num", "str"}
ValueLess(x, y) == IF x.t = "num" THEN x.v < y.v ELSE StrLess(x.v, y.v)

\* A sort, min or max over more than one value raises TypeError unless the
\* values are mutually comparable.
Orderable(vals) == \A i, j \in DOMAIN vals : i # j => Comparable(vals[i], vals[j])

\* Lines 205-209.
LessPlayedAt(x, y) == ValueLess(x.played_at, y.played_at)
HistoryRows(a) == SortDesc(a.listening_history, LessPlayedAt)

FcnValues(f) == LET ks == SetToSeq(DOMAIN f) IN [i \in DOMAIN ks |-> f[ks[i]]]

MinValue(vals) == CHOOSE x \in {vals[i] : i \in DOMAIN vals} :
                      \A i \in DOMAIN vals : ~ValueLess(vals[i], x)
MaxValue(vals) == CHOOSE x \in {vals[i] : i \in DOMAIN vals} :
                      \A i \in DOMAIN vals : ~ValueLess(x, vals[i])

RECURSIVE SumValues(_)
SumValues(f) ==
    IF DOMAIN f = {} THEN 0
    ELSE LET k == CHOOSE x \in DOMAIN f : TRUE
         IN f[k] + SumValues([x \in DOMAIN f \ {k} |-> f[x]])

PlayCountOf(a, track_id) ==
    IF track_id \in DOMAIN a.play_counts THEN a.play_counts[track_id] ELSE 0

\* Lines 245-250: artist -> summed play count, in order of first appearance.
RECURSIVE ArtistCounts(_, _)
ArtistCounts(a, n) ==
    IF n = 0 THEN <<>>
    ELSE LET prev == ArtistCounts(a, n - 1)
             t == a.tracks[n]
             c == PlayCountOf(a, t.track_id)
         IN  IF \E i \in DOMAIN prev : prev[i].artist = t.artist
             THEN [i \in DOMAIN prev |->
                     IF prev[i].artist = t.artist
                     THEN [prev[i] EXCEPT !.play_count = @ + c] ELSE prev[i]]
             ELSE Append(prev, [artist |-> t.artist, play_count |-> c])

TopArtistsLimit == 10

\* _get_top_artists
GetTopArtists(a) ==
    LET ranked == SortDesc(ArtistCounts(a, Len(a.tracks)), LessPlayCount)
    IN SubSeq(ranked, 1, IF Len(ranked) < TopArtistsLimit THEN Len(ranked)
                         ELSE TopArtistsLimit)

\* Mutation: the number of counted tracks instead of the sum of the counts.
TotalPlayCount_Len(a) == Cardinality(DOMAIN a.play_counts)

\* Line 229.
TotalPlayCount(a) == SumValues(a.play_counts)

\* Lines 225-235.
Stats(a) ==
    [total_tracks |-> Len(a.tracks),
     total_listens |-> Len(a.listening_history),
     tracks_with_play_count |->
         Cardinality({i \in DOMAIN a.tracks : PlayCountOf(a, a.tracks[i].track_id) > 0}),
     total_play_count |-> TotalPlayCount(a),
     date_range |->
         [first_seen |-> IF DOMAIN a.first_seen # {}
                         THEN MinValue(FcnValues(a.first_seen)) ELSE JNull,
          last_seen |-> IF DOMAIN a.last_seen # {}
                        THEN MaxValue(FcnValues(a.last_seen)) ELSE JNull],
     top_artists |-> GetTopArtists(a)]

\* min()/max() of lines 231-232 raise TypeError on values of mixed types.
StatsRaises(a) ==
    ~Orderable(FcnValues(a.first_seen)) \/ ~Orderable(FcnValues(a.last_seen))

(* --------------------------- input corpora ----------------------------- *)
\* A file of the dump directory: text json.load rejects, or a parsed payload.
BadFile == [kind |-> "bad"]
JsonFile(payload) == [kind |-> "json", payload |-> payload]
\* The envelope the capture side writes; only url and data are read.
Doc(url, data) == JsonFile(JObj([url |-> S(url), data |-> data]))

T2024Z == JStr(<<"2024-03-01", "T", "10:00:00", "Z">>)
T2023Z == JStr(<<"2023-01-01", "T", "10:00:00", "Z">>)
T2024Plus2 == JStr(<<"2024-03-01", "T", "12:00:00", "+02:00">>)
T2023Naive == JStr(<<"2023-01-01", "T", "10:00:00">>)
TJunk == S("yesterday")

\* Files that exercise failures, partial merges and documents without tracks.
ErrorFiles ==
    { BadFile,
      JsonFile(JArr(<<JObj([id |-> JNum(1), title |-> S("A")])>>)),
      JsonFile(JObj([url |-> S("u0")])),
      Doc("u1", JObj([id |-> JNum(1), title |-> S("A"), play_count |-> JNum(5)])),
      Doc("u2", JObj([id |-> JNum(2), title |-> S("B"), played_at |-> T2024Z])),
      Doc("u3", JArr(<<JObj([id |-> JNum(3), title |-> S("C"), played_at |-> T2023Z]),
                       JObj([id |-> JNum(2), track |-> JNull])>>)),
      Doc("u4", JObj([collection |-> JNum(5), id |-> JNum(1), title |-> S("A")])),
      Doc("u5", JObj([kind |-> S("like"), next_href |-> JNull])),
      Doc("u6", JObj([id |-> JNum(2), title |-> S("B"), tracks |-> S("none"),
                      items |-> JObj([next |-> JNull])])),
      Doc("u7", JObj([id |-> JNum(3), title |-> S("C"), items |-> JNull])) }

\* Files in which tracks 1, 2, 3 carry play counts under the three keys.
CountFiles ==
    { BadFile,
      Doc("c1", JObj([id |-> JNum(1), title |-> S("A"), play_count |-> JNum(5)])),
      Doc("c2", JObj([id |-> JNum(1), title |-> S("A"), count |-> JNum(9)])),
      Doc("c3", JObj([id |-> JNum(1),
                      track |-> JObj([title |-> S("A"), playback_count |-> JNum(7)])])),
      Doc("c4", JObj([collection |->
                 JArr(<<JObj([id |-> JNum(1), title |-> S("A"), play_count |-> JNum(5)]),
                        JObj([id |-> JNum(2), title |-> S("B"), play_count |-> JNum(9)])>>)])),
      Doc("c5", JObj([id |-> JNum(2), title |-> S("B"), play_count |-> JNum(5),
                      played_at |-> T2024Z])),
      Doc("c6", JObj([id |-> JNum(3), title |-> S("C")])),
      Doc("c7", JObj([id |-> JNum(3), title |-> S("C"), play_count |-> JNum(5)])),
      Doc("c8", JObj([id |-> JNum(1), title |-> S("A"), play_count |-> JNum(-1),
                      count |-> JNum(2)])),
      Doc("c9", JArr(<<JObj([id |-> JNum(3), title |-> S("C"), play_count |-> JNum(12)]),
                       JObj([id |-> JNum(2), track |-> JNull, play_count |-> JNum(20)])>>)) }

\* Files in which track 1 is observed with timestamps of every kind.
TimeFiles ==
    { BadFile,
      Doc("t1", JObj([id |-> JNum(1), title |-> S("A"), played_at |-> T2024Z])),
      Doc("t2", JObj([id |-> JNum(1), title |-> S("A"), played_at |-> T2023Z])),
      Doc("t3", JObj([id |-> JNum(1), title |-> S("A"), timestamp |-> T2024Plus2])),
      Doc("t4", JObj([id |-> JNum(1), title |-> S("A"), played_at |-> T2023Naive])),
      Doc("t5", JObj([id |-> JNum(1), title |-> S("A"), played_at |-> TJunk])),
      Doc("t6", JObj([id |-> JNum(1), title |-> S("A"), played_at |-> JNum(17)])),
      Doc("t7", JObj([id |-> JNum(1), title |-> S("A"), created_at |-> T2023Z])),
      Doc("t8", JObj([id |-> JNum(1), title |-> S("A"), play_count |-> S("many"),
                      played_at |-> T2023Z])),
      Doc("t9", JArr(<<JObj([id |-> JNum(1), title |-> S("A"), played_at |-> T2024Z,
                             created_at |-> T2023Z]),
                       JObj([id |-> JNum(2), title |-> S("B"), played_at |-> T2023Z])>>)) }

\* Files in which track 1 is observed with different titles and artists, at
\* different depths, next to objects whose id is falsy.
TitleFiles ==
    { BadFile,
      Doc("n1", JObj([id |-> JNum(1), title |-> S("A"),
                      user |-> JObj([username |-> S("U")])])),
      Doc("n2", JObj([id |-> JNum(1), title |-> S("B")])),
      Doc("n3", JObj([id |-> JNum(1), track |-> EmptyObj])),
      Doc("n4", JObj([id |-> JNum(1), title |-> S("A"),
                      track |-> JObj([title |-> S("B"),
                                      user |-> JObj([full_name |-> S("V")])])])),
      Doc("n5", JObj([id |-> JNum(1), title |-> EmptyStr])),
      Doc("n6", JObj([collection |-> JArr(<<JObj([items |->
                        JArr(<<JObj([id |-> JNum(1), title |-> S("B")])>>)])>>)])),
      Doc("n7", JObj([id |-> JNum(0), title |-> S("A"), play_count |-> JNum(5),
                      played_at |-> T2024Z, created_at |-> T2023Z])),
      Doc("n8", JArr(<<JObj([id |-> EmptyStr, title |-> S("A"), count |-> JNum(3),
                             timestamp |-> T2023Z]),
                       JObj([id |-> JNull, track |-> JObj([title |-> S("B")])])>>)),
      Doc("n9", JObj([id |-> JNum(0), title |-> S("A"), play_count |-> JNum(5),
                      tracks |-> JArr(<<JObj([id |-> JNum(2), title |-> S("B")])>>)])) }

(* ------------------------------ the run -------------------------------- *)
Listings(pool) == UNION {[1..n -> pool] : n \in 0..MaxFiles}

InitWith(pool) ==
    /\ dump \in {[exists |-> TRUE, files |-> fs] : fs \in Listings(pool)}
                \cup {[exists |-> FALSE, files |-> <<>>]}
    /\ idx = 0
    /\ pc = "start"
    /\ agg = EmptyAgg
    /\ seen = <<>>
    /\ failed = {}
    /\ out = [written |-> {}, top_tracks |-> <<>>, listening_history |-> <<>>,
              stats |-> <<>>]

Init == InitWith(ErrorFiles)

\* Lines 128-130.
ParseDumpMissing ==
    /\ pc = "start"
    /\ ~dump.exists
    /\ pc' = "parsed"
    /\ UNCHANGED <<dump, idx, agg, seen, failed, out>>

\* Lines 132-135.
ParseDumpNoFiles ==
    /\ pc = "start"
    /\ dump.exists
    /\ dump.files = <<>>
    /\ pc' = "parsed"
    /\ UNCHANGED <<dump, idx, agg, seen, failed, out>>

\* Lines 140-151 on one file: [st, exc], exc = TRUE when the except clause ran.
ProcessFile(a, file) ==
    IF file.kind = "bad" THEN Raise(a)                   \* json.load
    ELSE IF file.payload.t # "obj" THEN Raise(a)         \* payload.get
    ELSE ExtractTrackData(a, Get(file.payload, "data", EmptyObj),
                          Get(file.payload, "url", EmptyStr))

\* One iteration of the loop of lines 139-151 (and lines 153-156 after the
\* last one).
ParseFile ==
    /\ pc \in {"start", "parsing"}
    /\ dump.exists
    /\ idx < Len(dump.files)
    /\ LET r == ProcessFile(agg, dump.files[idx + 1])
       IN  /\ agg' = [r.st EXCEPT !.log = <<>>]
           /\ seen' = seen \o [i \in DOMAIN r.st.log |->
                                 [file |-> idx + 1, rec |-> r.st.log[i].rec,
                                  url |-> r.st.log[i].url, done |-> r.st.log[i].done]]
           /\ failed' = IF r.exc THEN failed \cup {idx + 1} ELSE failed
    /\ idx' = idx + 1
    /\ pc' = IF idx + 1 = Len(dump.files) THEN "parsed" ELSE "parsing"
    /\ UNCHANGED <<dump, out>>

\* Mutation: run() without its "if not self.tracks: return".
RunHasData_Always(a) == TRUE

\* Lines 269-271.
RunHasData(a) == a.tracks # <<>>

RunNoData ==
    /\ pc = "parsed"
    /\ ~RunHasData(agg)
    /\ pc' = "done"
    /\ UNCHANGED <<dump, idx, agg, seen, failed, out>>

\* generate_top_tracks_csv
GenerateTopTracksCsv ==
    /\ pc = "parsed"
    /\ RunHasData(agg)
    /\ out' = IF agg.tracks = <<>> THEN out
              ELSE [out EXCEPT !.written = @ \cup {"top_tracks.csv"},
                               !.top_tracks = TopTracksRows(agg)]
    /\ pc' = "top"
    /\ UNCHANGED <<dump, idx, agg, seen, failed>>

\* generate_listening_history_csv; the sort raises on keys of mixed types.
GenerateListeningHistoryCsv ==
    /\ pc = "top"
    /\ IF agg.listening_history = <<>>
       THEN pc' = "hist" /\ out' = out
       ELSE IF ~Orderable([i \in DOMAIN agg.listening_history |->
                             agg.listening_history[i].played_at])
       THEN pc' = "crashed" /\ out' = out
       ELSE /\ pc' = "hist"
            /\ out' = [out EXCEPT !.written = @ \cup {"listening_history.csv"},
                                  !.listening_history = HistoryRows(agg)]
    /\ UNCHANGED <<dump, idx, agg, seen, failed>>

\* generate_stats_json
GenerateStatsJson ==
    /\ pc = "hist"
    /\ IF StatsRaises(agg)
       THEN pc' = "crashed" /\ out' = out
       ELSE /\ pc' = "done"
            /\ out' = [out EXCEPT !.written = @ \cup {"stats.json"},
                                  !.stats = Stats(agg)]
    /\ UNCHANGED <<dump, idx, agg, seen, failed>>

Next ==
    \/ ParseDumpMissing
    \/ ParseDumpNoFiles
    \/ ParseFile
    \/ RunNoData
    \/ GenerateTopTracksCsv
    \/ GenerateListeningHistoryCsv
    \/ GenerateStatsJson

Spec == Init /\ [][Next]_vars

InitCounts == InitWith(CountFiles)
SpecCounts == InitCounts /\ [][Next]_vars

InitTimes == InitWith(TimeFiles)
SpecTimes == InitTimes /\ [][Next]_vars

InitTitles == InitWith(TitleFiles)
SpecTitles == InitTitles /\ [][Next]_vars

(* ======================= claims: helpers =============================== *)
Finished == pc \in {"parsed", "top", "hist", "done", "crashed"}

\* Indices of the merges performed for track X, in processing order.
SeenFor(X) == {i \in DOMAIN seen : seen[i].rec.v["id"] = X}
SeenIds == {seen[i].rec.v["id"] : i \in DOMAIN seen}

TrackOf(X) == agg.tracks[CHOOSE i \in DOMAIN agg.tracks : agg.tracks[i].track_id = X]

\* The detail source of a record: the object under "track", else the record.
DetailOf(rec) == IF Has(rec, "track") THEN rec.v["track"] ELSE rec

\* The play count a record shows: the first truthy of the outer play_count,
\* the outer count and the detail playback_count, else 0.
ObservedCount(rec) ==
    LET c == {k \in {"play_count", "count"} : Has(rec, k) /\ Truthy(rec.v[k])}
    IN  IF "play_count" \in c THEN rec.v["play_count"]
        ELSE IF "count" \in c THEN rec.v["count"]
        ELSE IF Has(DetailOf(rec), "playback_count")
                /\ Truthy(DetailOf(rec).v["playback_count"])
        THEN DetailOf(rec).v["playback_count"]
        ELSE JNum(0)

PositiveCounts(X) ==
    {ObservedCount(seen[i].rec).v : i \in {j \in SeenFor(X) :
        ObservedCount(seen[j].rec).t = "num" /\ ObservedCount(seen[j].rec).v > 0}}

SetMax(ns) == CHOOSE n \in ns : \A m \in ns : m <= n

(* ============================== C1 ===================================== *)
\* C1: however many documents show track X, the tracks table holds exactly
\* one TrackRecord for X, and PlayCount[X] is the maximum of the positive
\* play counts observed for X (no entry when none is positive), not their sum.
C1_OneRecordMaxCount ==
    \A X \in SeenIds :
        /\ Cardinality({i \in DOMAIN agg.tracks : agg.tracks[i].track_id = X}) = 1
        /\ IF PositiveCounts(X) = {}
           THEN X \notin DOMAIN agg.play_counts
           ELSE /\ X \in DOMAIN agg.play_counts
                /\ agg.play_counts[X] = SetMax(PositiveCounts(X))

\* Track X seen in three different documents with different positive counts.
C1_Witness ==
    /\ pc = "parsed"
    /\ \E X \in SeenIds :
        /\ Cardinality({seen[i].file : i \in SeenFor(X)}) >= 3
        /\ Cardinality(PositiveCounts(X)) >= 2
        /\ Len(agg.tracks) >= 2
        /\ agg.play_counts[X] = SetMax(PositiveCounts(X))

(* ============================== C6 ===================================== *)
CreatedAt(X) == CHOOSE i \in DOMAIN agg.tracks : agg.tracks[i].track_id = X

\* C6: top_tracks.csv has exactly one row per TrackRecord, in descending
\* order of play_count (0 when the track has none), and rows with equal
\* play_count stand in the order in which their TrackRecords were created.
C6_RankedStable ==
    "top_tracks.csv" \in out.written =>
        LET rows == out.top_tracks
        IN  /\ Len(rows) = Len(agg.tracks)
            /\ \A i \in DOMAIN agg.tracks :
                 Cardinality({p \in DOMAIN rows :
                     rows[p].track_id = agg.tracks[i].track_id}) = 1
            /\ \A p \in DOMAIN rows :
                 rows[p].play_count =
                     (IF rows[p].track_id \in DOMAIN agg.play_counts
                      THEN agg.play_counts[rows[p].track_id] ELSE 0)
            /\ \A p, q \in DOMAIN rows :
                 p < q => /\ rows[p].play_count >= rows[q].play_count
                          /\ (rows[p].play_count = rows[q].play_count
                              => CreatedAt(rows[p].track_id) < CreatedAt(rows[q].track_id))

\* Three ranked tracks, two of them tied, in an order the sort had to change.
C6_Witness ==
    /\ "top_tracks.csv" \in out.written
    /\ Len(out.top_tracks) = 3
    /\ out.top_tracks[1].play_count > out.top_tracks[2].play_count
    /\ out.top_tracks[2].play_count = out.top_tracks[3].play_count
    /\ out.top_tracks[1].track_id # agg.tracks[1].track_id

(* ============================== C8 ===================================== *)
RECURSIVE SumOverTracks(_)
SumOverTracks(n) ==
    IF n = 0 THEN 0
    ELSE SumOverTracks(n - 1)
         + (IF agg.tracks[n].track_id \in DOMAIN agg.play_counts
            THEN agg.play_counts[agg.tracks[n].track_id] ELSE 0)

\* C8: the statistics record has total_play_count = the sum of PlayCount over
\* all tracks, tracks_with_play_count = the number of TrackRecords whose
\* PlayCount is > 0, total_tracks = the number of TrackRecords and
\* total_listens = the number of ListeningEvents.
C8_StatsTotals ==
    "stats.json" \in out.written =>
        /\ out.stats.total_play_count = SumOverTracks(Len(agg.tracks))
        /\ out.stats.tracks_with_play_count =
             Cardinality({X \in TrackIds(agg) :
                 X \in DOMAIN agg.play_counts /\ agg.play_counts[X] > 0})
        /\ out.stats.total_tracks = Cardinality(TrackIds(agg))
        /\ out.stats.total_listens = Len(agg.listening_history)

\* Statistics over tracks with and without a play count, and some listens.
C8_Witness ==
    /\ "stats.json" \in out.written
    /\ out.stats.total_tracks = 3
    /\ out.stats.tracks_with_play_count = 2
    /\ out.stats.total_play_count > 9
    /\ out.stats.total_listens > 0

(* ============================ C4, C5 =================================== *)
\* The played_at of a record: the outer played_at, else the outer timestamp.
PlayedAtOf(rec) ==
    IF Has(rec, "played_at") /\ Truthy(rec.v["played_at"]) THEN rec.v["played_at"]
    ELSE IF Has(rec, "timestamp") THEN rec.v["timestamp"] ELSE JNull

\* The created_at of a record: the outer one, else the detail's.
CreatedAtOf(rec) ==
    IF Has(rec, "created_at") /\ Truthy(rec.v["created_at"]) THEN rec.v["created_at"]
    ELSE IF DetailOf(rec).t = "obj" /\ Has(DetailOf(rec), "created_at")
    THEN DetailOf(rec).v["created_at"] ELSE JNull

\* The events of track X in a log: the completed merges that carried a
\* non-empty played_at, in processing order.
EventsIn(log, X) ==
    {i \in DOMAIN log : /\ log[i].rec.v["id"] = X
                        /\ log[i].done
                        /\ Truthy(PlayedAtOf(log[i].rec))}
Events(X) == EventsIn(seen, X)

Parses(ts) == ts.t = "str" /\ FromIsoFormat(ReplaceZ(ts.v)).ok
Aware(ts) == FromIsoFormat(ReplaceZ(ts.v)).aware
Instant(ts) == FromIsoFormat(ReplaceZ(ts.v)).minutes

\* ts parses and compares as strictly earlier than cur.
StrictlyEarlier(ts, cur) ==
    /\ Parses(ts) /\ Parses(cur)
    /\ Aware(ts) = Aware(cur)
    /\ Instant(ts) < Instant(cur)

\* C4 as stated, its last clause: once the events processed for X all carry a
\* played_at that parses, FirstSeen[X] is the chronologically earliest of them.
C4_FirstSeenIsEarliestPlayedAt ==
    \A X \in SeenIds :
        (Events(X) # {} /\ \A i \in Events(X) : Parses(PlayedAtOf(seen[i].rec)))
        => /\ X \in DOMAIN agg.first_seen
           /\ \E i \in Events(X) : agg.first_seen[X] = PlayedAtOf(seen[i].rec)
           /\ \A i \in Events(X) :
                Instant(agg.first_seen[X]) <= Instant(PlayedAtOf(seen[i].rec))

\* FirstSeen[X] was first set from a played_at: no completed merge for X
\* with only a created_at came before X's first event.
SeededByEvent(X) ==
    \A j \in SeenFor(X) :
        (seen[j].done /\ ~Truthy(PlayedAtOf(seen[j].rec))
                      /\ Truthy(CreatedAtOf(seen[j].rec)))
        => \E i \in Events(X) : i < j

\* The played_at values of X's events parse and compare with one another.
EventsComparable(X) ==
    /\ \A i \in Events(X) : Parses(PlayedAtOf(seen[i].rec))
    /\ \A i, j \in Events(X) :
         Aware(PlayedAtOf(seen[i].rec)) = Aware(PlayedAtOf(seen[j].rec))

C4_StepOk ==
    \A X \in DOMAIN agg.first_seen :
        /\ X \in DOMAIN agg'.first_seen
        /\ agg'.first_seen[X] # agg.first_seen[X]
           => /\ StrictlyEarlier(agg'.first_seen[X], agg.first_seen[X])
              /\ \E i \in EventsIn(seen', X) :
                   i > Len(seen) /\ PlayedAtOf(seen'[i].rec) = agg'.first_seen[X]
        /\ ~Parses(agg.first_seen[X]) => agg'.first_seen[X] = agg.first_seen[X]

C4_EarliestWhenComparable ==
    \A X \in SeenIds :
        (Events(X) # {} /\ SeededByEvent(X) /\ EventsComparable(X))
        => /\ X \in DOMAIN agg.first_seen
           /\ \E i \in Events(X) : agg.first_seen[X] = PlayedAtOf(seen[i].rec)
           /\ \A i \in Events(X) :
                Instant(agg.first_seen[X]) <= Instant(PlayedAtOf(seen[i].rec))

\* C4 (amended): an existing FirstSeen[X] is replaced only by a played_at that
\* parses and compares as strictly earlier, and is kept when it does not
\* parse; when FirstSeen[X] was first set from a played_at (not seeded from
\* the created_at of an earlier record without played_at) and X's played_at
\* values all parse and are mutually comparable, FirstSeen[X] is the
\* chronologically earliest of them, whatever the processing order.
C4_FirstSeenNeverRegresses ==
    [][C4_StepOk]_vars /\ []C4_EarliestWhenComparable

\* The later timestamp was processed first, and FirstSeen ends at the earlier.
C4_Witness ==
    \E X \in SeenIds : \E i, j \in Events(X) :
        /\ i < j
        /\ PlayedAtOf(seen[i].rec) = T2024Z
        /\ PlayedAtOf(seen[j].rec) = T2023Z
        /\ SeededByEvent(X) /\ EventsComparable(X)
        /\ agg.first_seen[X] = T2023Z

\* C5: at every point of a run, LastSeen[X] is the played_at of the most
\* recently processed record for X that carried a non-empty played_at,
\* whether or not it is chronologically later than the earlier ones; X has no
\* LastSeen while no such record was processed.
C5_LastSeenIsLastProcessed ==
    \A X \in SeenIds \cup DOMAIN agg.last_seen :
        IF Events(X) = {}
        THEN X \notin DOMAIN agg.last_seen
        ELSE /\ X \in DOMAIN agg.last_seen
             /\ agg.last_seen[X] = PlayedAtOf(seen[SetMax(Events(X))].rec)

\* LastSeen[X] is chronologically earlier than a played_at processed before.
C5_Witness ==
    \E X \in DOMAIN agg.last_seen : \E i \in Events(X) :
        /\ i < SetMax(Events(X))
        /\ StrictlyEarlier(agg.last_seen[X], PlayedAtOf(seen[i].rec))
        /\ agg.last_seen[X] # agg.first_seen[X]

(* ========================= C2, C3, C10 ================================= *)
\* The objects of a JSON value the traversal visits: the elements of arrays,
\* and of the arrays under the collection, tracks and items keys.
RECURSIVE Visited(_)
VisitedIn(items) == UNION {Visited(items[i]) : i \in DOMAIN items}
Visited(data) ==
    IF data.t = "arr" THEN VisitedIn(data.v)
    ELSE IF data.t = "obj"
    THEN {data} \cup UNION {VisitedIn(data.v[k].v) :
                 k \in {c \in {"collection", "tracks", "items"} :
                            Has(data, c) /\ data.v[c].t = "arr"}}
    ELSE {}

\* The data of the i-th file of the dump ({} when it is no JSON object).
DataOf(i) ==
    IF dump.files[i].kind = "json" /\ dump.files[i].payload.t = "obj"
    THEN Get(dump.files[i].payload, "data", EmptyObj)
    ELSE EmptyObj

HasTrack(X) == \E i \in DOMAIN agg.tracks : agg.tracks[i].track_id = X

\* C2 as stated: after the full run, for every document whose data holds, at
\* a depth the traversal reaches, an object with id = X and title = T, the
\* TrackRecord for X has title T.
C2_TitleOfEveryObservation ==
    Finished =>
        \A i \in 1..idx : \A o \in Visited(DataOf(i)) :
            (Has(o, "id") /\ Has(o, "title") /\ Truthy(o.v["id"]))
            => /\ HasTrack(o.v["id"])
               /\ TrackOf(o.v["id"]).title = o.v["title"]

\* The title a record shows: the detail's, else the outer one, else "Unknown".
ShownTitle(rec) ==
    IF Has(DetailOf(rec), "title") THEN DetailOf(rec).v["title"]
    ELSE IF Has(rec, "title") THEN rec.v["title"]
    ELSE S("Unknown")

FirstSeenIdx(X) == CHOOSE i \in SeenFor(X) : \A j \in SeenFor(X) : i <= j

\* C2 (amended): the TrackRecord for X has the title of the first record
\* merged for X in processing order (its detail title, else its outer
\* title, else "Unknown"); so an object with id = X and title = T gives the
\* TrackRecord the title T when it is the first record processed for X and
\* its track detail, if any, has no title of its own.
C2_TitleOfFirstObservation ==
    \A X \in SeenIds :
        /\ HasTrack(X)
        /\ TrackOf(X).title = ShownTitle(seen[FirstSeenIdx(X)].rec)
        /\ LET o == seen[FirstSeenIdx(X)].rec
           IN  (Has(o, "title") /\ (Has(o, "track") => ~Has(o.v["track"], "title")))
               => TrackOf(X).title = o.v["title"]

\* Track X was first seen with title A, later with title B, and keeps A.
C2_Witness ==
    /\ Finished
    /\ \E X \in SeenIds : \E i, j \in SeenFor(X) :
        /\ i = FirstSeenIdx(X) /\ i < j
        /\ seen[i].file # seen[j].file
        /\ ~Has(seen[i].rec, "track") /\ ~Has(seen[j].rec, "track")
        /\ seen[i].rec.v["title"] = S("A")
        /\ seen[j].rec.v["title"] = S("B")
        /\ TrackOf(X).title = S("A")

\* A record-like object (id plus title or track) whose id is falsy.
FalsyRecord(o) == RecordLike(o) /\ ~Truthy(o.v["id"])

\* A file all of whose visited objects are falsy-id records without children.
FalsyOnly(i) ==
    /\ Visited(DataOf(i)) # {}
    /\ \A o \in Visited(DataOf(i)) :
         FalsyRecord(o) /\ \A k \in {"collection", "tracks", "items"} : ~Has(o, k)

C3_NoFalsyKey ==
    /\ \A i \in DOMAIN agg.tracks : Truthy(agg.tracks[i].track_id)
    /\ \A X \in DOMAIN agg.play_counts \cup DOMAIN agg.first_seen
                \cup DOMAIN agg.last_seen : Truthy(X)
    /\ \A i \in DOMAIN agg.listening_history :
         Truthy(agg.listening_history[i].track_id)

C3_FalsyStep ==
    (idx' = idx + 1 /\ FalsyOnly(idx + 1)) => agg' = agg

\* C3: an object whose id is falsy (0, "", null) never gets a TrackRecord or
\* any entry in play_counts, first_seen, last_seen or listening_history, and
\* processing a document that holds only such objects leaves all five
\* unchanged.
C3_FalsyIdNoEffect == []C3_NoFalsyKey /\ [][C3_FalsyStep]_vars

\* A document of falsy-id records, with play count and timestamps, was
\* processed after another one had filled the tables.
C3_Witness ==
    /\ idx >= 2
    /\ FalsyOnly(idx)
    /\ \E o \in Visited(DataOf(idx)) :
         /\ Truthy(ObservedCount(o))
         /\ Truthy(PlayedAtOf(o))
    /\ agg.tracks # <<>>

\* The non-empty titles and artists observed for X, by position in the log.
ShownArtist(rec) ==
    LET d == DetailOf(rec)
        u == IF Has(d, "user") THEN d.v["user"] ELSE EmptyObj
    IN  IF Has(u, "username") THEN u.v["username"]
        ELSE IF Has(u, "full_name") THEN u.v["full_name"] ELSE JNull

TitleObserved(i) ==
    (Has(DetailOf(seen[i].rec), "title") \/ Has(seen[i].rec, "title"))
    /\ Truthy(ShownTitle(seen[i].rec))
ArtistObserved(i) == Truthy(ShownArtist(seen[i].rec))

\* C10 as stated: the title (and the artist) of the TrackRecord for X is the
\* first non-empty value observed for X in processing order, also when
\* earlier observations of X carried none.
C10_FirstNonEmptyWins ==
    \A X \in SeenIds :
        /\ \A i \in SeenFor(X) :
             (TitleObserved(i) /\ \A j \in SeenFor(X) : j < i => ~TitleObserved(j))
             => TrackOf(X).title = ShownTitle(seen[i].rec)
        /\ \A i \in SeenFor(X) :
             (ArtistObserved(i) /\ \A j \in SeenFor(X) : j < i => ~ArtistObserved(j))
             => TrackOf(X).artist = ShownArtist(seen[i].rec)

(* ============================== C7 ===================================== *)
\* There is nothing to report: the dump directory is missing or holds no
\* JSON file, or the scan is over and no document yielded a track.
NothingFound ==
    \/ ~dump.exists
    \/ dump.files = <<>>
    \/ (Finished /\ agg.tracks = <<>>)

\* C7: with zero JSON files in the input directory (and with a missing
\* directory, or when no document yields a track) run() writes none of
\* top_tracks.csv, listening_history.csv and stats.json, raises no error and
\* runs to its end.
C7_NoDataNoOutput ==
    NothingFound =>
        /\ out.written = {}
        /\ agg.tracks = <<>>
        /\ pc \in {"start", "parsing", "parsed", "done"}
        /\ pc # "done" => ENABLED Next

\* run() has returned on an existing directory without any JSON file.
C7_Witness ==
    /\ pc = "done"
    /\ dump.exists
    /\ dump.files = <<>>
    /\ out.written = {}

(* ============================== C9 ===================================== *)
\* The aggregation state obtained from the first n files without the files
\* whose index is in skip.
RECURSIVE Without(_, _)
Without(n, skip) ==
    IF n = 0 THEN EmptyAgg
    ELSE IF n \in skip THEN Without(n - 1, skip)
    ELSE [ProcessFile(Without(n - 1, skip), dump.files[n]).st EXCEPT !.log = <<>>]

\* C9 as stated: a file whose processing fails is skipped and the files after
\* it are still processed, so that the aggregation state after the scan is
\* the one the same corpus gives without the failed files.
C9_FailedFileLeavesNoTrace ==
    Finished => /\ idx = Len(dump.files)
                /\ agg = Without(idx, failed)

(* ============================== C11 ==================================== *)
ContainerKeys == {"collection", "tracks", "items"}

\* An object with a truthy id and a title whose collection, tracks or items
\* keys, one at least, all hold something else than an array.
NonArrayContainer(o) ==
    /\ o.t = "obj"
    /\ Has(o, "id") /\ Truthy(o.v["id"]) /\ Has(o, "title")
    /\ \E k \in ContainerKeys : Has(o, k)
    /\ \A k \in ContainerKeys : Has(o, k) => o.v[k].t # "arr"

\* C11 as stated: a collection, tracks or items value that is not an array
\* (object, string, number, null) is not recursed into and has no effect, and
\* the object that carries it, having a truthy id and a title, is still
\* merged as a candidate record.
C11_NonArrayContainerIgnored ==
    \A i \in 1..idx :
        NonArrayContainer(DataOf(i))
        => /\ i \notin failed
           /\ \E j \in DOMAIN seen :
                seen[j].file = i /\ seen[j].rec = DataOf(i) /\ seen[j].done

(* ============================== C12 ==================================== *)
\* The merges, of any track, that carried a non-empty played_at, in order.
AllEvents == {i \in DOMAIN seen : seen[i].done /\ Truthy(PlayedAtOf(seen[i].rec))}

\* The k-th smallest element of a set of indices.
Nth(set, k) == CHOOSE i \in set : Cardinality({j \in set : j < i}) = k - 1

\* The artist a record shows, with the placeholder of line 64.
ArtistOrUnknown(rec) ==
    LET d == DetailOf(rec)
        u == IF Has(d, "user") THEN d.v["user"] ELSE EmptyObj
    IN  IF Has(u, "username") THEN u.v["username"]
        ELSE IF Has(u, "full_name") THEN u.v["full_name"] ELSE S("Unknown Artist")

\* One ListeningEvent per merged record with a non-empty played_at, in
\* processing order, duplicates included.
C12_OneEventPerPlay ==
    /\ Len(agg.listening_history) = Cardinality(AllEvents)
    /\ \A k \in DOMAIN agg.listening_history :
         LET e == seen[Nth(AllEvents, k)]
         IN  agg.listening_history[k] =
                 [track_id |-> e.rec.v["id"], title |-> ShownTitle(e.rec),
                  artist |-> ArtistOrUnknown(e.rec),
                  played_at |-> PlayedAtOf(e.rec), source_url |-> e.url]

\* The merges for X that carried a created_at and no played_at.
CreatedOnly(X) ==
    {i \in SeenFor(X) : /\ seen[i].done
                        /\ ~Truthy(PlayedAtOf(seen[i].rec))
                        /\ Truthy(CreatedAtOf(seen[i].rec))}

\* A created_at becomes FirstSeen[X] only through a record that found no
\* FirstSeen entry: while X has events, FirstSeen[X] is one of their
\* played_at values unless a created_at-only record came before them all,
\* and then it is that record's created_at or a played_at; without events
\* it is the created_at of the first created_at-only record.
C12_CreatedAtOnlySeeds ==
    \A X \in SeenIds :
        LET plays == {PlayedAtOf(seen[i].rec) : i \in Events(X)}
            first == IF CreatedOnly(X) = {} THEN {}
                     ELSE {CreatedAtOf(seen[Nth(CreatedOnly(X), 1)].rec)}
        IN  IF Events(X) = {} /\ CreatedOnly(X) = {}
            THEN X \notin DOMAIN agg.first_seen
            ELSE /\ X \in DOMAIN agg.first_seen
                 /\ IF Events(X) = {} THEN agg.first_seen[X] \in first
                    ELSE IF \E i \in CreatedOnly(X) : \A j \in Events(X) : i < j
                    THEN agg.first_seen[X] \in first \cup plays
                    ELSE agg.first_seen[X] \in plays

\* The history only grows, at its end.
C12_AppendOnly ==
    /\ Len(agg'.listening_history) >= Len(agg.listening_history)
    /\ SubSeq(agg'.listening_history, 1, Len(agg.listening_history))
         = agg.listening_history

\* C12: the ListeningEvent log is append-only and has exactly one entry for
\* each merged record with a truthy id and a non-empty played_at (the outer
\* played_at, else the outer timestamp), in processing order and without
\* deduplication; a record that has only created_at appends no event and
\* sets FirstSeen only when the track has no FirstSeen entry yet.
C12_HistoryAppendOnly ==
    [](C12_OneEventPerPlay /\ C12_CreatedAtOnlySeeds) /\ [][C12_AppendOnly]_vars

\* The same play was logged twice, and a created_at-only record that came
\* after an event left FirstSeen alone.
C12_Witness ==
    /\ \E i, j \in DOMAIN agg.listening_history :
         i < j /\ agg.listening_history[i] = agg.listening_history[j]
    /\ \E X \in SeenIds : \E i \in CreatedOnly(X) :
         /\ \E j \in Events(X) : j < i
         /\ agg.first_seen[X] # CreatedAtOf(seen[i].rec)
         /\ Len(agg.listening_history) = Cardinality(Events(X))

(* ============================== C13 ==================================== *)
\* C13: in every reachable aggregation state, every key of play_counts,
\* first_seen and last_seen is a key of tracks, every stored PlayCount is
\* greater than 0, every key of last_seen is a key of first_seen, and a track
\* id has a last_seen entry exactly when listening_history holds an event
\* with that track_id.
C13_TablesConsistent ==
    /\ DOMAIN agg.play_counts \subseteq TrackIds(agg)
    /\ DOMAIN agg.first_seen \subseteq TrackIds(agg)
    /\ DOMAIN agg.last_seen \subseteq TrackIds(agg)
    /\ \A X \in DOMAIN agg.play_counts : agg.play_counts[X] > 0
    /\ DOMAIN agg.last_seen \subseteq DOMAIN agg.first_seen
    /\ DOMAIN agg.last_seen =
         {agg.listening_history[i].track_id : i \in DOMAIN agg.listening_history}

\* Tracks with and without a play count and with and without events, after a
\* file that failed part-way.
C13_Witness ==
    /\ failed # {}
    /\ DOMAIN agg.play_counts # {}
    /\ DOMAIN agg.last_seen # {}
    /\ TrackIds(agg) \ DOMAIN agg.play_counts # {}
    /\ TrackIds(agg) \ DOMAIN agg.last_seen # {}
    /\ Cardinality(DOMAIN agg.last_seen) >= 2

====
